---- MODULE Spec2Model ----
(***************************************************************************)
(* Model of src/handler.py: the RunPod serverless handler of ACE-Step 1.5. *)
(*                                                                         *)
(* The module-level code (lines 5-35, 161-173) is the boot sequence; the   *)
(* runtime then calls handler(job) (lines 69-159), which calls             *)
(* init_pipeline() (lines 40-67).  Each job that runs handler is a thread  *)
(* with its own locals; `pipeline` and the torch random source are global. *)
(*                                                                         *)
(* Encodings.  A Python str is a sequence of one-character strings.  An    *)
(* optional integer is a sequence: <<>> is None, <<n>> is the integer n.   *)
(* A dict is a function whose DOMAIN is its key set.  A float sample is an *)
(* integer number of halves (k stands for k/2), so 2 is 1.0 and 3 is 1.5.  *)
(***************************************************************************)
EXTENDS Integers, Sequences, FiniteSets, TLC

VARIABLES
    phase,        \* position of the module-level code
    env,          \* which imports resolve in this container
    concurrency,  \* how many jobs the runtime lets run handler at once
    workload,     \* which job inputs and backend results are explored
    pipeline,     \* the global `pipeline` (line 38)
    rng,          \* torch's global random source
    pc,           \* per job thread: position inside handler / init_pipeline
    job_input,    \* handler local (line 91)
    prompt,       \* handler local (line 103)
    seed,         \* handler local (line 100)
    pipe,         \* handler local (line 108)
    tried,        \* per init_pipeline call: import paths attempted so far
    call,         \* what the backend received at line 118
    audio,        \* handler local (line 118)
    audio_int16,  \* handler local (line 139)
    response,     \* how handler(job) ended
    seeded,       \* torch.manual_seed was called in this job
    accepted,     \* number of jobs handed to handler so far
    ctorCalls,    \* number of ACEStepPipeline() invocations so far
    built,        \* ids of the handles whose constructor returned
    handed,       \* handles init_pipeline() has returned so far
    initFailed,   \* some init_pipeline() call has raised
    lateFailed    \* some job has raised after init_pipeline() returned

vars == <<phase, env, concurrency, workload, pipeline, rng, pc, job_input,
          prompt, seed, pipe, tried, call, audio, audio_int16, response,
          seeded, accepted, ctorCalls, built, handed, initFailed, lateFailed>>

----------------------------------------------------------------------------
(* Bounds *)

MaxJobs == 3

MaxLen == 2

Threads == {1, 2}

\* -1.5, -1.0, 0.5, 1.0, 1.5
Samples == {-3, -2, 1, 2, 3}

Waveforms == UNION {[1..n -> Samples] : n \in 1..MaxLen}

----------------------------------------------------------------------------
(* Python values *)

None == <<>>

NoHandle == [id |-> 0, strategy |-> 0]

EmptyDict == <<>>

Get(d, k, default) == IF k \in DOMAIN d THEN d[k] ELSE default

Field(k, values) == {EmptyDict} \cup {k :> v : v \in values}

TagValues == {<<>>, <<"w">>}

LyricValues == {<<>>, <<"v">>, <<"\n">>}

SeedValues == {None, <<0>>, <<1>>}

JobInputs ==
    {t @@ l @@ s : t \in Field("tags", TagValues),
                   l \in Field("lyrics", LyricValues),
                   s \in Field("seed", SeedValues)}

Shapes == {"ndarray", "tensor", "attr", "mapping"}

BackendRaises == [shape |-> "raise", wave |-> <<>>]

BackendOutputs ==
    {BackendRaises} \cup [shape : Shapes, wave : Waveforms]

NoAudio == [shape |-> "none", wave |-> <<>>]

NoResponse == [kind |-> "none", stage |-> "", wav |-> <<>>]

NoCall == [prompt |-> <<>>, rng |-> [seed |-> None, used |-> FALSE]]

CtorOutcomes == {"ok", "ImportError", "Exception"}

Envs ==
    {e \in [deps : BOOLEAN, pkg : BOOLEAN, primary : BOOLEAN, alt : BOOLEAN] :
        (e.primary \/ e.alt) => e.pkg}

----------------------------------------------------------------------------
(* handler, lines 95-104: parameter extraction and the prompt *)

NL == "\n"

BuildPromptAlways(tags, lyrics) == tags \o <<NL, NL>> \o lyrics

\* prompt = f"{tags}\n\n{lyrics}" if tags else lyrics
BuildPrompt(tags, lyrics) ==
    IF Len(tags) > 0 THEN tags \o <<NL, NL>> \o lyrics ELSE lyrics

----------------------------------------------------------------------------
(* init_pipeline, lines 40-67 *)

NeedsInitAlways(p) == TRUE

\* if pipeline is None:
NeedsInit(p) == p = NoHandle

AssignOnCtorEarly(old, outcome, h) == h

\* pipeline = ACEStepPipeline(): the global is stored only when the
\* constructor returns
AssignOnCtor(old, outcome, h) == IF outcome = "ok" THEN h ELSE old

----------------------------------------------------------------------------
(* handler, lines 111-113: seeding *)

ShouldSeedTruthy(s) == s # None /\ s # <<0>>

\* if seed is not None:
ShouldSeed(s) == s # None

----------------------------------------------------------------------------
(* handler, lines 132-139: conversion to 16-bit PCM *)

\* hasattr(audio, 'numpy'): a torch tensor has .numpy(), an ndarray, a dict
\* and a plain wrapper object do not
HasNumpy(a) == a.shape = "tensor"

\* lines 132-135: audio_np = audio.numpy() if hasattr(audio, 'numpy')
\* else audio
AudioNp(a) ==
    IF HasNumpy(a) THEN [shape |-> "ndarray", wave |-> a.wave] ELSE a

\* audio_np * 32767 is defined for an array; a dict or a plain wrapper
\* object has no multiplication by an int and raises TypeError
CanMultiply(a) == a.shape = "ndarray"

PcmScale == 32767

Int16Min == -32768

Int16Max == 32767

\* float -> integer conversion drops the fraction (towards zero)
Trunc(n, d) == IF n >= 0 THEN n \div d ELSE -((-n) \div d)

\* the float product sample * 32767, truncated; samples are in halves
Scaled(k) == Trunc(k * PcmScale, 2)

InRange16(v) == Int16Min <= v /\ v <= Int16Max

Wrap16(v) == ((v - Int16Min) % (Int16Max - Int16Min + 1)) + Int16Min

Saturate16(v) == IF v < Int16Min THEN Int16Min
                 ELSE IF v > Int16Max THEN Int16Max ELSE v

\* A float outside the int16 range has no defined conversion: the build
\* either keeps the low 16 bits or saturates
CastModes == {"wrap", "saturate"}

Cast16(v, mode) ==
    IF InRange16(v) THEN v
    ELSE IF mode = "wrap" THEN Wrap16(v) ELSE Saturate16(v)

\* (audio_np * 32767).astype(np.int16)
AsInt16(wave, mode) == [i \in DOMAIN wave |-> Cast16(Scaled(wave[i]), mode)]

----------------------------------------------------------------------------
(* Initial states *)

\* the job inputs clients send under a workload
InputsOf(w) ==
    IF w = "full" THEN JobInputs ELSE {EmptyDict, "seed" :> <<0>>}

\* the outcomes the backend produces under a workload
OutputsOf(w) ==
    IF w = "full" THEN BackendOutputs
    ELSE {BackendRaises,
          [shape |-> "ndarray", wave |-> <<1>>],
          [shape |-> "mapping", wave |-> <<1>>]}

InitCommon ==
    /\ phase = "importing"
    /\ env \in Envs
    /\ pipeline = NoHandle
    /\ rng = [seed |-> None, used |-> FALSE]
    /\ pc = [t \in Threads |-> "idle"]
    /\ job_input = [t \in Threads |-> EmptyDict]
    /\ prompt = [t \in Threads |-> <<>>]
    /\ seed = [t \in Threads |-> None]
    /\ pipe = [t \in Threads |-> NoHandle]
    /\ tried = [t \in Threads |-> <<>>]
    /\ call = [t \in Threads |-> NoCall]
    /\ audio = [t \in Threads |-> NoAudio]
    /\ audio_int16 = [t \in Threads |-> <<>>]
    /\ response = [t \in Threads |-> NoResponse]
    /\ seeded = [t \in Threads |-> FALSE]
    /\ accepted = 0
    /\ ctorCalls = 0
    /\ built = {}
    /\ handed = {}
    /\ initFailed = FALSE
    /\ lateFailed = FALSE

\* runpod.serverless.start({"handler": handler}) sets no concurrency
\* modifier: the runtime runs one job at a time
Init ==
    /\ InitCommon
    /\ concurrency = 1
    /\ workload = "full"

\* a runtime that delivers two jobs to handler concurrently
InitConc ==
    /\ InitCommon
    /\ concurrency = 2
    /\ workload = "small"

----------------------------------------------------------------------------
(* Module-level code *)

globals == <<pipeline, rng, ctorCalls, built, handed, initFailed, lateFailed>>

locals == <<pc, job_input, prompt, seed, pipe, tried, call, audio,
            audio_int16, response, seeded>>

setup == <<env, concurrency, workload>>

\* lines 11-35: runpod, torch, scipy are imported or the process exits
ImportDeps ==
    /\ phase = "importing"
    /\ phase' = IF env.deps THEN "verifying" ELSE "exited"
    /\ UNCHANGED <<setup, globals, locals, accepted>>

\* lines 161-173: a failed `import acestep` only prints a warning, then
\* the serverless worker is started
StartWorker ==
    /\ phase = "verifying"
    /\ phase' = "serving"
    /\ UNCHANGED <<setup, globals, locals, accepted>>

----------------------------------------------------------------------------
(* handler(job) *)

Active == Cardinality({t \in Threads : pc[t] # "idle"})

\* lines 156-159: log, then `raise e`
HandlerRaises(t, stage) ==
    /\ pc' = [pc EXCEPT ![t] = "done"]
    /\ response' = [response EXCEPT
                      ![t] = [kind |-> "exception", stage |-> stage,
                              wav |-> <<>>]]

\* lines 90-104
HandlerEntry(t) ==
    /\ phase = "serving"
    /\ pc[t] = "idle"
    /\ accepted < MaxJobs
    /\ Active < concurrency
    /\ \E inp \in InputsOf(workload) :
          /\ job_input' = [job_input EXCEPT ![t] = inp]
          /\ prompt' = [prompt EXCEPT
                          ![t] = BuildPrompt(Get(inp, "tags", <<>>),
                                             Get(inp, "lyrics", <<>>))]
          /\ seed' = [seed EXCEPT ![t] = Get(inp, "seed", None)]
    /\ pc' = [pc EXCEPT ![t] = "init"]
    /\ accepted' = accepted + 1
    /\ UNCHANGED <<phase, setup, globals, pipe, tried, call, audio,
                   audio_int16, response, seeded>>

\* line 43
InitCheck(t) ==
    /\ pc[t] = "init"
    /\ pc' = [pc EXCEPT ![t] = IF NeedsInit(pipeline) THEN "import1"
                               ELSE "ret"]
    /\ tried' = [tried EXCEPT ![t] = <<>>]
    /\ UNCHANGED <<phase, setup, globals, job_input, prompt, seed, pipe,
                   call, audio, audio_int16, response, seeded, accepted>>

\* line 47; ImportError goes to lines 50-56
Import1(t) ==
    /\ pc[t] = "import1"
    /\ tried' = [tried EXCEPT ![t] = Append(@, 1)]
    /\ pc' = [pc EXCEPT ![t] = IF env.primary THEN "ctor1" ELSE "import2"]
    /\ UNCHANGED <<phase, setup, globals, job_input, prompt, seed, pipe,
                   call, audio, audio_int16, response, seeded, accepted>>

\* line 48.  The try of line 45 covers the constructor call too: an
\* ImportError raised inside it reaches `except ImportError` (line 50),
\* any other exception reaches `except Exception` (lines 63-66).
Ctor1(t) ==
    /\ pc[t] = "ctor1"
    /\ ctorCalls' = ctorCalls + 1
    /\ \E outcome \in CtorOutcomes :
          LET h == [id |-> ctorCalls + 1, strategy |-> 1] IN
          /\ pipeline' = AssignOnCtor(pipeline, outcome, h)
          /\ built' = IF outcome = "ok" THEN built \cup {h.id} ELSE built
          /\ CASE outcome = "ok" ->
                    /\ pc' = [pc EXCEPT ![t] = "ret"]
                    /\ UNCHANGED <<response, initFailed>>
               [] outcome = "ImportError" ->
                    /\ pc' = [pc EXCEPT ![t] = "import2"]
                    /\ UNCHANGED <<response, initFailed>>
               [] outcome = "Exception" ->
                    /\ HandlerRaises(t, "init")
                    /\ initFailed' = TRUE
    /\ UNCHANGED <<phase, setup, rng, handed, lateFailed, job_input, prompt,
                   seed, pipe, tried, call, audio, audio_int16, seeded,
                   accepted>>

\* line 56; ImportError goes to lines 59-62 and is raised again
Import2(t) ==
    /\ pc[t] = "import2"
    /\ tried' = [tried EXCEPT ![t] = Append(@, 2)]
    /\ IF env.alt
          THEN /\ pc' = [pc EXCEPT ![t] = "ctor2"]
               /\ UNCHANGED <<response, initFailed>>
          ELSE /\ HandlerRaises(t, "init")
               /\ initFailed' = TRUE
    /\ UNCHANGED <<phase, setup, pipeline, rng, ctorCalls, built, handed,
                   lateFailed, job_input, prompt, seed, pipe, call, audio,
                   audio_int16, seeded, accepted>>

\* line 57; every exception of the constructor leaves init_pipeline
Ctor2(t) ==
    /\ pc[t] = "ctor2"
    /\ ctorCalls' = ctorCalls + 1
    /\ \E outcome \in CtorOutcomes :
          LET h == [id |-> ctorCalls + 1, strategy |-> 2] IN
          /\ pipeline' = AssignOnCtor(pipeline, outcome, h)
          /\ built' = IF outcome = "ok" THEN built \cup {h.id} ELSE built
          /\ IF outcome = "ok"
                THEN /\ pc' = [pc EXCEPT ![t] = "ret"]
                     /\ UNCHANGED <<response, initFailed>>
                ELSE /\ HandlerRaises(t, "init")
                     /\ initFailed' = TRUE
    /\ UNCHANGED <<phase, setup, rng, handed, lateFailed, job_input, prompt,
                   seed, pipe, tried, call, audio, audio_int16, seeded,
                   accepted>>

\* line 67 and the assignment of line 108
InitReturn(t) ==
    /\ pc[t] = "ret"
    /\ pipe' = [pipe EXCEPT ![t] = pipeline]
    /\ handed' = handed \cup {pipeline}
    /\ pc' = [pc EXCEPT ![t] = "seed"]
    /\ UNCHANGED <<phase, setup, pipeline, rng, ctorCalls, built,
                   initFailed, lateFailed, job_input, prompt, seed, tried,
                   call, audio, audio_int16, response, seeded, accepted>>

\* lines 111-113
SetSeed(t) ==
    /\ pc[t] = "seed"
    /\ IF ShouldSeed(seed[t])
          THEN /\ rng' = [seed |-> seed[t], used |-> FALSE]
               /\ seeded' = [seeded EXCEPT ![t] = TRUE]
          ELSE UNCHANGED <<rng, seeded>>
    /\ pc' = [pc EXCEPT ![t] = "call"]
    /\ UNCHANGED <<phase, setup, pipeline, ctorCalls, built, handed,
                   initFailed, lateFailed, job_input, prompt, seed, pipe,
                   tried, call, audio, audio_int16, response, accepted>>

\* lines 118-123: the backend is entered with the prompt and draws from
\* the global random source
Invoke(t) ==
    /\ pc[t] = "call"
    /\ call' = [call EXCEPT ![t] = [prompt |-> prompt[t], rng |-> rng]]
    /\ rng' = [rng EXCEPT !.used = TRUE]
    /\ pc' = [pc EXCEPT ![t] = "generating"]
    /\ UNCHANGED <<phase, setup, pipeline, ctorCalls, built, handed,
                   initFailed, lateFailed, job_input, prompt, seed, pipe,
                   tried, audio, audio_int16, response, seeded, accepted>>

\* lines 118-125: the backend returns a value or raises.  The locals the
\* code does not read after line 123 leave the state here.
BackendReturn(t) ==
    /\ pc[t] = "generating"
    /\ \E out \in OutputsOf(workload) :
          IF out = BackendRaises
             THEN /\ HandlerRaises(t, "invoke")
                  /\ lateFailed' = TRUE
                  /\ UNCHANGED audio
             ELSE /\ audio' = [audio EXCEPT ![t] = out]
                  /\ pc' = [pc EXCEPT ![t] = "post"]
                  /\ UNCHANGED <<response, lateFailed>>
    /\ job_input' = [job_input EXCEPT ![t] = EmptyDict]
    /\ prompt' = [prompt EXCEPT ![t] = <<>>]
    /\ seed' = [seed EXCEPT ![t] = None]
    /\ tried' = [tried EXCEPT ![t] = <<>>]
    /\ call' = [call EXCEPT ![t] = NoCall]
    /\ seeded' = [seeded EXCEPT ![t] = FALSE]
    /\ UNCHANGED <<phase, setup, pipeline, rng, ctorCalls, built, handed,
                   initFailed, pipe, audio_int16, accepted>>

\* lines 132-139
Quantize(t) ==
    /\ pc[t] = "post"
    /\ LET audio_np == AudioNp(audio[t]) IN
       IF CanMultiply(audio_np)
          THEN /\ \E mode \in CastModes :
                    audio_int16' = [audio_int16 EXCEPT
                                      ![t] = AsInt16(audio_np.wave, mode)]
               /\ pc' = [pc EXCEPT ![t] = "encode"]
               /\ UNCHANGED <<response, lateFailed>>
          ELSE /\ HandlerRaises(t, "post")
               /\ lateFailed' = TRUE
               /\ UNCHANGED audio_int16
    /\ UNCHANGED <<phase, setup, pipeline, rng, ctorCalls, built, handed,
                   initFailed, job_input, prompt, seed, pipe, tried, call,
                   audio, seeded, accepted>>

\* lines 141-154: the samples go into the WAV and the response is returned
Encode(t) ==
    /\ pc[t] = "encode"
    /\ response' = [response EXCEPT
                      ![t] = [kind |-> "success", stage |-> "",
                              wav |-> audio_int16[t]]]
    /\ pc' = [pc EXCEPT ![t] = "done"]
    /\ UNCHANGED <<phase, setup, globals, job_input, prompt, seed, pipe,
                   tried, call, audio, audio_int16, seeded, accepted>>

\* the runtime takes the result of handler(job); the frame is gone
Deliver(t) ==
    /\ pc[t] = "done"
    /\ pc' = [pc EXCEPT ![t] = "idle"]
    /\ job_input' = [job_input EXCEPT ![t] = EmptyDict]
    /\ prompt' = [prompt EXCEPT ![t] = <<>>]
    /\ seed' = [seed EXCEPT ![t] = None]
    /\ pipe' = [pipe EXCEPT ![t] = NoHandle]
    /\ tried' = [tried EXCEPT ![t] = <<>>]
    /\ call' = [call EXCEPT ![t] = NoCall]
    /\ audio' = [audio EXCEPT ![t] = NoAudio]
    /\ audio_int16' = [audio_int16 EXCEPT ![t] = <<>>]
    /\ response' = [response EXCEPT ![t] = NoResponse]
    /\ seeded' = [seeded EXCEPT ![t] = FALSE]
    /\ UNCHANGED <<phase, setup, globals, accepted>>

Next ==
    \/ ImportDeps
    \/ StartWorker
    \/ \E t \in Threads :
          \/ HandlerEntry(t)
          \/ InitCheck(t)
          \/ Import1(t)
          \/ Ctor1(t)
          \/ Import2(t)
          \/ Ctor2(t)
          \/ InitReturn(t)
          \/ SetSeed(t)
          \/ Invoke(t)
          \/ BackendReturn(t)
          \/ Quantize(t)
          \/ Encode(t)
          \/ Deliver(t)

Spec == Init /\ [][Next]_vars

SpecConc == InitConc /\ [][Next]_vars

----------------------------------------------------------------------------
(* Claims *)

\* C1: a job in which the backend invocation, the post-processing or the
\* encoding raised ends with handler returning a failure response
\* {error: message}, not with the exception leaving handler.
C1_FailureReported ==
    \A t \in Threads :
        (pc[t] = "done" /\ response[t].stage \in {"invoke", "post"})
            => response[t].kind = "error"

\* C2: with two jobs inside init_pipeline() at once the constructor
\* completes at most once and all callers hold the same handle.
C2_SingleFlight ==
    /\ Cardinality(built) <= 1
    /\ \A t1, t2 \in Threads :
          (pipe[t1] # NoHandle /\ pipe[t2] # NoHandle) => pipe[t1] = pipe[t2]

C4_QuantizationBounds ==
    \A t \in Threads :
        (pc[t] = "done" /\ response[t].kind = "success") =>
            \A i \in DOMAIN response[t].wav :
                LET x == audio[t].wave[i]
                    y == response[t].wav[i]
                IN  /\ -32767 <= y /\ y <= 32767
                    /\ x > 0 => y > 0
                    /\ x < 0 => y < 0
                    /\ x = 2 => y = 32767
                    /\ x = -2 => y = -32767

\* C5: when neither acestep.pipeline nor acestep.acestep_v15_pipeline can
\* be imported, the worker never serves and handler accepts no job.
C5_FatalStartup ==
    (~env.primary /\ ~env.alt) => (phase # "serving" /\ accepted = 0)

\* C6: the prompt the job carries to the backend is tags + "\n\n" + lyrics
\* when tags is a non-empty string, and lyrics verbatim when tags is empty
\* or absent (the empty string when lyrics is empty or absent too).
C6_PromptConstruction ==
    \A t \in Threads :
        LET inp == job_input[t]
            lyr == IF "lyrics" \in DOMAIN inp THEN inp["lyrics"] ELSE <<>>
            hasTags == IF "tags" \in DOMAIN inp THEN inp["tags"] # <<>>
                       ELSE FALSE
            want == IF hasTags THEN inp["tags"] \o <<"\n", "\n">> \o lyr
                    ELSE lyr
        IN  /\ pc[t] \in {"init", "import1", "ctor1", "import2", "ctor2",
                          "ret", "seed", "call", "generating"}
                  => prompt[t] = want
            /\ pc[t] = "generating" => call[t].prompt = want

\* C6 witness: a job without tags and lyrics reached the backend with the
\* empty prompt.
C6_Witness ==
    \E t \in Threads :
        /\ pc[t] = "generating"
        /\ "tags" \notin DOMAIN job_input[t]
        /\ "lyrics" \notin DOMAIN job_input[t]
        /\ call[t].prompt = <<>>

\* C7: a job whose input has a non-null seed (0 included) enters the
\* backend with the random source freshly seeded with that seed, the
\* seeding having happened in that job after the handle was obtained; a
\* job with no seed or a null seed performs no seeding.
C7_SeedOrdering ==
    \A t \in Threads :
        LET inp == job_input[t]
            hasSeed == IF "seed" \in DOMAIN inp THEN inp["seed"] # None
                       ELSE FALSE
        IN  /\ seeded[t] => pipe[t] # NoHandle
            /\ pc[t] \in {"call", "generating"} => (seeded[t] <=> hasSeed)
            /\ (pc[t] = "generating" /\ hasSeed)
                  => call[t].rng = [seed |-> inp["seed"], used |-> FALSE]

\* C7 witness: a job after the first one entered the backend seeded with 0.
C7_Witness ==
    /\ accepted >= 2
    /\ \E t \in Threads :
          /\ pc[t] = "generating"
          /\ "seed" \in DOMAIN job_input[t]
          /\ job_input[t]["seed"] = <<0>>
          /\ call[t].rng = [seed |-> <<0>>, used |-> FALSE]

\* C8: whatever shape the backend's return value has (object with an
\* `audio` attribute, mapping with key `audio`, or the waveform itself),
\* the job succeeds with the audio the bare waveform would give.
C8_ResultShape ==
    \A t \in Threads :
        (pc[t] = "done" /\ audio[t] # NoAudio) =>
            /\ response[t].kind = "success"
            /\ \E mode \in CastModes :
                  response[t].wav = AsInt16(audio[t].wave, mode)

\* C9: the slot is empty or holds a handle whose constructor returned;
\* after init_pipeline() raised it is empty; a call that finds it empty
\* constructs, starting with the first strategy.
C9_AtomicConstruction ==
    /\ pipeline # NoHandle => pipeline.id \in built
    /\ \A t \in Threads :
          /\ (pc[t] = "done" /\ response[t].stage = "init")
                => pipeline = NoHandle
          /\ (pc[t] = "ret" /\ tried[t] = <<>>) => pipeline # NoHandle
          /\ pc[t] \in {"ctor1", "import2", "ctor2"}
                => (tried[t] # <<>> /\ Head(tried[t]) = 1)

\* C9 witness: after an init_pipeline() call raised, a later job found
\* the slot empty and is constructing again with the first strategy.
C9_Witness ==
    /\ initFailed
    /\ accepted >= 2
    /\ pipeline = NoHandle
    /\ \E t \in Threads : pc[t] = "ctor1" /\ tried[t] = <<1>>

\* C10: the second strategy is attempted only when the first strategy's
\* import failed, and the cached handle comes from the first strategy
\* whose import resolved.
C10_OrderedFallback ==
    /\ \A t \in Threads :
          (tried[t] # <<>> /\ tried[t][Len(tried[t])] = 2) => ~env.primary
    /\ pipeline # NoHandle =>
          pipeline.strategy = (IF env.primary THEN 1 ELSE 2)

====
